---- MODULE Spec2Model ----
(***************************************************************************)
(* A model of 9cc.c: the tokenizer, the recursive-descent parser, the      *)
(* stack-machine code generator and the driver, followed by the execution  *)
(* of the emitted AArch64 instructions.                                    *)
(*                                                                         *)
(* A C string is a sequence of one-character strings; the terminating NUL  *)
(* is the empty string.  Offsets into user_input are 0-based, as in C.     *)
(***************************************************************************)
EXTENDS Integers, Sequences, FiniteSets, TLC

\* Longest input of the exhaustive family (every string over Alphabet).
MaxLen == 3
\* Most operands of the generated operator chains.
MaxOperands == 3

VARIABLES
  argc,        \* main's argc
  argv1,       \* argv[1]
  pc,          \* position in main / in the emitted program
  user_input,  \* char *user_input
  p,           \* tokenize's scan pointer, as an offset into user_input
  toks,        \* the token list built so far (head.next, ->next, ...)
  token,       \* Token *token, as an index into toks (0: not yet set)
  heap,        \* the Node objects calloc has returned, in order
  node,        \* main's Node *node, as an index into heap (0: NULL)
  stdout,      \* lines written to standard output
  stderr,      \* lines written to standard error
  pos,         \* error_at's pos = loc - user_input (-1: not called)
  exit_code,   \* the process's exit status (-1: still running)
  ip,          \* machine: index into stdout of the next instruction
  stack,       \* machine: the 16-byte slots pushed below the entry sp
  regs,        \* machine: x0, x1, x2
  flags,       \* machine: the operands of the last cmp
  underflow    \* machine: a load has read above the entry sp

vars == <<argc, argv1, pc, user_input, p, toks, token, heap, node,
          stdout, stderr, pos, exit_code, ip, stack, regs, flags, underflow>>

----------------------------------------------------------------------------
(* Characters and C library functions                                      *)

NUL == ""

CharAt(s, i) == IF i >= 0 /\ i < Len(s) THEN s[i + 1] ELSE NUL

isspace(c) == c \in {" ", "\t", "\n", "\r", "\f"}

Digits == {"0", "1", "2", "3", "4", "5", "6", "7", "8", "9"}

isdigit(c) == c \in Digits

DigitValue(c) ==
  CASE c = "0" -> 0 [] c = "1" -> 1 [] c = "2" -> 2 [] c = "3" -> 3
    [] c = "4" -> 4 [] c = "5" -> 5 [] c = "6" -> 6 [] c = "7" -> 7
    [] c = "8" -> 8 [] c = "9" -> 9

\* memcmp(p, q, strlen(q)) == 0, p being user_input + i
startswith(s, i, q) == \A k \in 1..Len(q) : CharAt(s, i + k - 1) = q[k]

\* strchr("+-*/()<>", c) for a c that is not NUL
IsPunct(c) == c \in {"+", "-", "*", "/", "(", ")", "<", ">"}

Max(a, b) == IF a >= b THEN a ELSE b

Spaces(n) == [i \in 1..n |-> " "]

\* printf("%*s", width, str): str right-justified in a field of at least
\* width characters; a field narrower than str is widened to hold it.
printf_star_s(width, str) == Spaces(Max(width, Len(str)) - Len(str)) \o str

(* strtol(p, &p, 10) on a run of digits.  A long has 64 bits; the value is  *)
(* kept as four 16-bit limbs, least significant first, so that no          *)
(* intermediate exceeds TLC's 32-bit integers.  A run whose value exceeds  *)
(* LONG_MAX yields LONG_MAX.                                               *)
Limb == 2 ^ 16

LongZero == [l |-> <<0, 0, 0, 0>>, ovf |-> FALSE]

\* LongMulAdd with a fault injected: the digits are accumulated in base 8.
LongMulAdd_Octal(a, d) ==
  LET t1 == a.l[1] * 8 + d
      t2 == a.l[2] * 8 + t1 \div Limb
      t3 == a.l[3] * 8 + t2 \div Limb
      t4 == a.l[4] * 8 + t3 \div Limb
  IN  [l   |-> <<t1 % Limb, t2 % Limb, t3 % Limb, t4 % Limb>>,
       ovf |-> a.ovf \/ t4 \div Limb > 0 \/ t4 % Limb >= Limb \div 2]

LongMulAdd(a, d) ==
  LET t1 == a.l[1] * 10 + d
      t2 == a.l[2] * 10 + t1 \div Limb
      t3 == a.l[3] * 10 + t2 \div Limb
      t4 == a.l[4] * 10 + t3 \div Limb
  IN  [l   |-> <<t1 % Limb, t2 % Limb, t3 % Limb, t4 % Limb>>,
       ovf |-> a.ovf \/ t4 \div Limb > 0 \/ t4 % Limb >= Limb \div 2]

RECURSIVE DigitsEnd(_, _)
DigitsEnd(s, i) == IF isdigit(CharAt(s, i)) THEN DigitsEnd(s, i + 1) ELSE i

RECURSIVE strtol_acc(_, _, _, _)
strtol_acc(s, i, q, a) ==
  IF i >= q THEN a
  ELSE strtol_acc(s, i + 1, q, LongMulAdd(a, DigitValue(CharAt(s, i))))

strtol(s, i) ==
  LET a == strtol_acc(s, i, DigitsEnd(s, i), LongZero)
  IN  IF a.ovf THEN <<Limb - 1, Limb - 1, Limb - 1, Limb \div 2 - 1>> ELSE a.l

\* cur->val = strtol(...): the long is converted to the 32-bit int field,
\* keeping its low 32 bits as a two's complement number.
LongToInt(l) ==
  IF l[2] >= Limb \div 2 THEN (l[2] - Limb) * Limb + l[1]
  ELSE l[2] * Limb + l[1]

----------------------------------------------------------------------------
(* Tokenizer                                                               *)

NoError == [loc |-> -1, msg |-> "none"]

Token(kind, val, str, len) ==
  [kind |-> kind, val |-> val, str |-> str, len |-> len]

new_token(kind, list, str, len) == Append(list, Token(kind, 0, str, len))

TwoCharOps == {<<"=", "=">>, <<"!", "=">>, <<"<", "=">>, <<">", "=">>}

\* LexBranch with a fault injected: the one-character operators are tried
\* before the two-character ones.
LexBranch_OneCharFirst(s, i) ==
  LET c == CharAt(s, i)
  IN  IF c = NUL THEN "eof"
      ELSE IF isspace(c) THEN "space"
      ELSE IF IsPunct(c) THEN "op1"
      ELSE IF \E q \in TwoCharOps : startswith(s, i, q) THEN "op2"
      ELSE IF isdigit(c) THEN "num"
      ELSE "error"

\* Which branch of tokenize's loop is taken at offset i.
LexBranch(s, i) ==
  LET c == CharAt(s, i)
  IN  IF c = NUL THEN "eof"
      ELSE IF isspace(c) THEN "space"
      ELSE IF \E q \in TwoCharOps : startswith(s, i, q) THEN "op2"
      ELSE IF IsPunct(c) THEN "op1"
      ELSE IF isdigit(c) THEN "num"
      ELSE "error"

\* One iteration of tokenize's loop (or, at the NUL, the code after it) on
\* the lexer state ls = [p, toks, err, done].
LexStep(s, ls) ==
  LET b == LexBranch(s, ls.p)
  IN  CASE b = "space" -> [ls EXCEPT !.p = @ + 1]
        [] b = "op2" ->
             [ls EXCEPT !.toks = new_token("TK_RESERVED", @, ls.p, 2),
                        !.p = @ + 2]
        [] b = "op1" ->
             [ls EXCEPT !.toks = new_token("TK_RESERVED", @, ls.p, 1),
                        !.p = @ + 1]
        [] b = "num" ->
             LET q == DigitsEnd(s, ls.p)
             IN  [ls EXCEPT
                    !.toks = Append(@, Token("TK_NUM",
                                             LongToInt(strtol(s, ls.p)),
                                             ls.p, q - ls.p)),
                    !.p = q]
        [] b = "error" ->
             [ls EXCEPT !.err = [loc |-> ls.p, msg |-> "cannot_tokenize"],
                        !.done = TRUE]
        [] b = "eof" ->
             [ls EXCEPT !.toks = new_token("TK_EOF", @, ls.p, 0),
                        !.done = TRUE]

LexStart == [p |-> 0, toks |-> <<>>, err |-> NoError, done |-> FALSE]

RECURSIVE tokenize_from(_, _)
tokenize_from(s, ls) ==
  IF ls.done THEN ls ELSE tokenize_from(s, LexStep(s, ls))

tokenize(s) == tokenize_from(s, LexStart)

----------------------------------------------------------------------------
(* Parser.  A parser state P is [s, toks, token, heap, err, node, val]:    *)
(* the input, the token list, the global cursor, the nodes allocated so    *)
(* far, the error that ended the process (NoError: none), and the value    *)
(* the last parsing function returned.                                     *)

NULL == 0

Node(kind, lhs, rhs, val) ==
  [kind |-> kind, lhs |-> lhs, rhs |-> rhs, val |-> val]

new_node(h, kind) == Append(h, Node(kind, NULL, NULL, 0))

\* new_binary with a fault injected: node->rhs is not assigned.
new_binary_NoRhs(h, kind, lhs, rhs) ==
  LET n == Len(h) + 1
  IN  [new_node(h, kind) EXCEPT ![n].lhs = lhs]

new_binary(h, kind, lhs, rhs) ==
  LET n == Len(h) + 1
  IN  [new_node(h, kind) EXCEPT ![n].lhs = lhs, ![n].rhs = rhs]

new_num(h, val) ==
  LET n == Len(h) + 1
  IN  [new_node(h, "ND_NUM") EXCEPT ![n].val = val]

failed(P) == P.err # NoError

Lexeme(s, t) == SubSeq(s, t.str + 1, t.str + t.len)

\* Whether the token under the cursor is the operator op: the test of
\* consume and of expect.
consume(P, op) ==
  LET t == P.toks[P.token]
  IN  /\ t.kind = "TK_RESERVED"
      /\ Len(op) = t.len
      /\ Lexeme(P.s, t) = op

\* token = token->next
consumed(P) == [P EXCEPT !.token = @ + 1]

expect(P, op) ==
  IF consume(P, op) THEN consumed(P)
  ELSE [P EXCEPT !.err = [loc |-> P.toks[P.token].str, msg |-> "expected_op"]]

\* expect_number with a fault injected: the error is reported at the end
\* of the token.
expect_number_EndLoc(P) ==
  LET t == P.toks[P.token]
  IN  IF t.kind # "TK_NUM"
      THEN [P EXCEPT !.err = [loc |-> t.str + t.len,
                              msg |-> "expected_number"]]
      ELSE [P EXCEPT !.val = t.val, !.token = @ + 1]

expect_number(P) ==
  LET t == P.toks[P.token]
  IN  IF t.kind # "TK_NUM"
      THEN [P EXCEPT !.err = [loc |-> t.str, msg |-> "expected_number"]]
      ELSE [P EXCEPT !.val = t.val, !.token = @ + 1]

\* new_binary(kind, lhs, rhs) once the operand parsed last, whose parser
\* state is R, has returned.
with_binary(R, kind, lhs, rhs) ==
  IF failed(R) THEN R
  ELSE [R EXCEPT !.heap = new_binary(@, kind, lhs, rhs),
                 !.node = Len(R.heap) + 1]

(* Each parsing function is written with one use of the function it calls: *)
(* F_loop(N) is an iteration of F's for(;;) with N the state in which      *)
(* node was assigned last, and F_node(N, R) the assignment to node in the  *)
(* branch whose consume succeeded in N, R being the state in which the     *)
(* right operand's parse returned.                                         *)

RECURSIVE expr(_), equality_loop(_), relational(_), relational_loop(_)
RECURSIVE add(_), add_loop(_), mul(_), mul_loop(_), unary(_), primary(_)

\* expect(")") after expr() has returned in R
primary_close(R) == IF failed(R) THEN R ELSE expect(R, <<")">>)

\* new_num(expect_number()), expect_number having returned in N
primary_num(N) ==
  IF failed(N) THEN N
  ELSE [N EXCEPT !.heap = new_num(@, N.val), !.node = Len(N.heap) + 1]

primary(P) ==
  IF consume(P, <<"(">>) THEN primary_close(expr(consumed(P)))
  ELSE primary_num(expect_number(P))

\* The state in which unary calls primary.  In
\* new_binary(ND_SUB, new_num(0), primary()) the order of the two
\* allocations is unspecified; the orders differ only in the addresses of
\* the nodes, and new_num(0) is taken first.
unary_operand(P) ==
  IF consume(P, <<"+">>) THEN consumed(P)
  ELSE IF consume(P, <<"-">>)
  THEN [consumed(P) EXCEPT !.heap = new_num(@, 0)]
  ELSE P

unary_node(P, R) ==
  IF consume(P, <<"+">>) THEN R
  ELSE IF consume(P, <<"-">>)
  THEN with_binary(R, "ND_SUB", Len(P.heap) + 1, R.node)
  ELSE R

unary(P) == unary_node(P, primary(unary_operand(P)))

mul_node(N, R) ==
  IF consume(N, <<"*">>) THEN with_binary(R, "ND_MUL", N.node, R.node)
  ELSE with_binary(R, "ND_DIV", N.node, R.node)

\* mul_loop with a fault injected: an if in place of the for(;;).
mul_loop_Once(N) ==
  IF failed(N) THEN N
  ELSE IF consume(N, <<"*">>) \/ consume(N, <<"/">>)
  THEN mul_node(N, unary(consumed(N)))
  ELSE N

mul_loop(N) ==
  IF failed(N) THEN N
  ELSE IF consume(N, <<"*">>) \/ consume(N, <<"/">>)
  THEN mul_loop(mul_node(N, unary(consumed(N))))
  ELSE N

mul(P) == mul_loop(unary(P))

add_node(N, R) ==
  IF consume(N, <<"+">>) THEN with_binary(R, "ND_ADD", N.node, R.node)
  ELSE with_binary(R, "ND_SUB", N.node, R.node)

add_loop(N) ==
  IF failed(N) THEN N
  ELSE IF consume(N, <<"+">>) \/ consume(N, <<"-">>)
  THEN add_loop(add_node(N, mul(consumed(N))))
  ELSE N

add(P) == add_loop(mul(P))

\* relational_node with a fault injected: ">" and ">=" keep the operands'
\* order.
relational_node_NoSwap(N, R) ==
  IF consume(N, <<"<">>) \/ consume(N, <<">">>)
  THEN with_binary(R, "ND_LT", N.node, R.node)
  ELSE with_binary(R, "ND_LE", N.node, R.node)

relational_node(N, R) ==
  IF consume(N, <<"<">>) THEN with_binary(R, "ND_LT", N.node, R.node)
  ELSE IF consume(N, <<"<", "=">>)
  THEN with_binary(R, "ND_LE", N.node, R.node)
  ELSE IF consume(N, <<">">>) THEN with_binary(R, "ND_LT", R.node, N.node)
  ELSE with_binary(R, "ND_LE", R.node, N.node)

relational_loop(N) ==
  IF failed(N) THEN N
  ELSE IF \/ consume(N, <<"<">>) \/ consume(N, <<"<", "=">>)
          \/ consume(N, <<">">>) \/ consume(N, <<">", "=">>)
  THEN relational_loop(relational_node(N, add(consumed(N))))
  ELSE N

relational(P) == relational_loop(add(P))

equality_node(N, R) ==
  IF consume(N, <<"=", "=">>) THEN with_binary(R, "ND_EQ", N.node, R.node)
  ELSE with_binary(R, "ND_NE", N.node, R.node)

equality_loop(N) ==
  IF failed(N) THEN N
  ELSE IF consume(N, <<"=", "=">>) \/ consume(N, <<"!", "=">>)
  THEN equality_loop(equality_node(N, relational(consumed(N))))
  ELSE N

equality(P) == equality_loop(relational(P))

expr(P) == equality(P)

\* The parser state main hands to expr(): token = tokenize().
ParseStart(s, list) ==
  [s |-> s, toks |-> list, token |-> 1, heap |-> <<>>, err |-> NoError,
   node |-> NULL, val |-> 0]

----------------------------------------------------------------------------
(* Code generator.  A line of output is [text, n]: the printf format and   *)
(* its integer argument (0 when the format has none).                      *)

Line(text, n) == [text |-> text, n |-> n]

PushNum(val) ==
  <<Line("  mov x2, #%d", val), Line("  str x2, [sp, -16]!", 0)>>

\* PopOperands with a fault injected: the operands are popped in the order
\* in which they were pushed.
PopOperands_Swapped ==
  <<Line("  ldr x0, [sp], 16", 0), Line("  ldr x1, [sp], 16", 0)>>

\* PopOperands with a fault injected: the left operand is not popped.
PopOperands_One == <<Line("  ldr x1, [sp], 16", 0)>>

PopOperands == <<Line("  ldr x1, [sp], 16", 0), Line("  ldr x0, [sp], 16", 0)>>

\* The switch on node->kind.
OpCode(kind) ==
  CASE kind = "ND_ADD" -> <<Line("  add x0, x0, x1", 0)>>
    [] kind = "ND_SUB" -> <<Line("  sub x0, x0, x1", 0)>>
    [] kind = "ND_MUL" -> <<Line(" mul x0, x0, x1", 0)>>
    [] kind = "ND_DIV" -> <<Line("  sdiv x0, x0, x1", 0)>>
    [] kind = "ND_EQ" -> <<Line("  cmp x0, x1", 0), Line("  cset x0, EQ", 0)>>
    [] kind = "ND_NE" -> <<Line("  cmp x0, x1", 0), Line("  cset x0, NE", 0)>>
    [] kind = "ND_LT" -> <<Line("  cmp x0, x1", 0), Line("  cset x0, LT", 0)>>
    [] kind = "ND_LE" -> <<Line("  cmp x0, x1", 0), Line("  cset x0, LE", 0)>>
    [] OTHER -> <<>>

PushResult == <<Line("  str x0, [sp, -16]!", 0)>>

RECURSIVE gen(_, _)
gen(h, n) ==
  IF h[n].kind = "ND_NUM" THEN PushNum(h[n].val)
  ELSE gen(h, h[n].lhs) \o gen(h, h[n].rhs)
         \o PopOperands \o OpCode(h[n].kind) \o PushResult

Prologue == <<Line(".globl main", 0), Line("main:", 0)>>

Epilogue == <<Line("  ldr x0, [sp], 16", 0), Line("  ret", 0)>>

----------------------------------------------------------------------------
(* The machine that runs the emitted instructions.  A machine state m is   *)
(* [stack, regs, flags, underflow].  The registers hold 64 bits; every     *)
(* value the inputs below produce lies well inside that range, so          *)
(* arithmetic is written without the wrap.                                 *)

Abs(a) == IF a < 0 THEN -a ELSE a

\* sdiv: the quotient rounded toward zero; a zero divisor gives zero.
sdiv(a, b) ==
  IF b = 0 THEN 0
  ELSE IF (a < 0) = (b < 0) THEN Abs(a) \div Abs(b)
  ELSE -(Abs(a) \div Abs(b))

Cond(cc, a, b) ==
  CASE cc = "EQ" -> a = b
    [] cc = "NE" -> a # b
    [] cc = "LT" -> a < b
    [] cc = "LE" -> a <= b

Bit(b) == IF b THEN 1 ELSE 0

\* str xN, [sp, -16]!
Push(m, v) == [m EXCEPT !.stack = Append(@, v)]

\* ldr xN, [sp], 16.  With nothing pushed the load reads the caller's
\* memory above the entry sp: some value j, and sp ends above its entry
\* value.
Pop(m, r, j) ==
  IF m.stack = <<>>
  THEN [m EXCEPT !.regs[r] = j, !.underflow = TRUE]
  ELSE [m EXCEPT !.regs[r] = m.stack[Len(m.stack)],
                 !.stack = SubSeq(@, 1, Len(@) - 1)]

\* The effect of one instruction; j is the value a load finds above the
\* entry sp.
ExecInstr(m, i, j) ==
  CASE i.text = "  mov x2, #%d" -> [m EXCEPT !.regs.x2 = i.n]
    [] i.text = "  str x2, [sp, -16]!" -> Push(m, m.regs.x2)
    [] i.text = "  str x0, [sp, -16]!" -> Push(m, m.regs.x0)
    [] i.text = "  ldr x1, [sp], 16" -> Pop(m, "x1", j)
    [] i.text = "  ldr x0, [sp], 16" -> Pop(m, "x0", j)
    [] i.text = "  add x0, x0, x1" ->
         [m EXCEPT !.regs.x0 = m.regs.x0 + m.regs.x1]
    [] i.text = "  sub x0, x0, x1" ->
         [m EXCEPT !.regs.x0 = m.regs.x0 - m.regs.x1]
    [] i.text = " mul x0, x0, x1" ->
         [m EXCEPT !.regs.x0 = m.regs.x0 * m.regs.x1]
    [] i.text = "  sdiv x0, x0, x1" ->
         [m EXCEPT !.regs.x0 = sdiv(m.regs.x0, m.regs.x1)]
    [] i.text = "  cmp x0, x1" ->
         [m EXCEPT !.flags = <<m.regs.x0, m.regs.x1>>]
    [] i.text = "  cset x0, EQ" ->
         [m EXCEPT !.regs.x0 = Bit(Cond("EQ", m.flags[1], m.flags[2]))]
    [] i.text = "  cset x0, NE" ->
         [m EXCEPT !.regs.x0 = Bit(Cond("NE", m.flags[1], m.flags[2]))]
    [] i.text = "  cset x0, LT" ->
         [m EXCEPT !.regs.x0 = Bit(Cond("LT", m.flags[1], m.flags[2]))]
    [] i.text = "  cset x0, LE" ->
         [m EXCEPT !.regs.x0 = Bit(Cond("LE", m.flags[1], m.flags[2]))]
    [] OTHER -> m

RECURSIVE Run(_, _, _)
Run(m, code, j) ==
  IF code = <<>> THEN m ELSE Run(ExecInstr(m, Head(code), j), Tail(code), j)

\* What the registers, the flags and the memory above sp may hold on entry.
Junk == {0, -1}

Machine(j) ==
  [stack |-> <<>>, regs |-> [x0 |-> j, x1 |-> j, x2 |-> j],
   flags |-> <<j, j>>, underflow |-> FALSE]

----------------------------------------------------------------------------
(* Inputs                                                                  *)

Alphabet ==
  {"1", "2", "+", "-", "*", "/", "(", ")", "<", ">", "=", "!", " ", "a"}

RECURSIVE Strings(_)
Strings(n) ==
  IF n = 0 THEN {<<>>}
  ELSE LET S == Strings(n - 1)
       IN  S \cup {Append(s, c) : s \in {t \in S : Len(t) = n - 1},
                                  c \in Alphabet}

BinOps ==
  {<<"+">>, <<"-">>, <<"*">>, <<"/">>, <<"<">>, <<"<", "=">>, <<">">>,
   <<">", "=">>, <<"=", "=">>, <<"!", "=">>}

\* One operator of each precedence level, for the decorated chains.
VarOps == {<<"-">>, <<"/">>, <<">">>, <<"!", "=">>}

\* The k-th operand of a chain.
OperandLits == << <<"1", "0">>, <<"3">>, <<"2">>, <<"7">>, <<"5">> >>

\* operand 1, ops[1], operand 2, ..., operand n, the k-th operand written
\* pre[k] \o OperandLits[k] \o post[k].
RECURSIVE ChainFrom(_, _, _, _, _)
ChainFrom(k, n, ops, pre, post) ==
  LET operand == pre[k] \o OperandLits[k] \o post[k]
  IN  IF k = n THEN operand
      ELSE operand \o ops[k] \o ChainFrom(k + 1, n, ops, pre, post)

Nothing(n) == [k \in 1..n |-> <<>>]

Chains(n) ==
  {ChainFrom(1, n, ops, Nothing(n), Nothing(n)) : ops \in [1..(n - 1) -> BinOps]}

\* Chains with one pair of parentheses around operands i..j (i = j: none)
\* and one sign before operand k (k = 0: none; with parentheses, k = i),
\* outside or inside the "(".
Decorated(n) ==
  {ChainFrom(1, n, ops,
             [x \in 1..n |->
                (IF x = g[3] /\ g[5] THEN <<g[4]>> ELSE <<>>)
                  \o (IF x = g[1] /\ g[1] < g[2] THEN <<"(">> ELSE <<>>)
                  \o (IF x = g[3] /\ ~g[5] THEN <<g[4]>> ELSE <<>>)],
             [x \in 1..n |->
                IF x = g[2] /\ g[1] < g[2] THEN <<")">> ELSE <<>>]) :
     ops \in [1..(n - 1) -> VarOps],
     g \in {h \in (1..n) \X (1..n) \X (0..n) \X {"+", "-"} \X BOOLEAN :
              /\ h[1] <= h[2]
              /\ h[1] = h[2] => h[1] = 1
              /\ h[1] < h[2] => h[3] \in {0, h[1]}}}

\* Digit runs around INT_MAX, UINT_MAX and LONG_MAX.
LongNumerals ==
  {<<"2", "1", "4", "7", "4", "8", "3", "6", "4", "7">>,
   <<"2", "1", "4", "7", "4", "8", "3", "6", "4", "8">>,
   <<"4", "2", "9", "4", "9", "6", "7", "2", "9", "5">>,
   <<"4", "2", "9", "4", "9", "6", "7", "2", "9", "6">>,
   <<"4", "2", "9", "4", "9", "6", "7", "2", "9", "9">>,
   <<"9", "2", "2", "3", "3", "7", "2", "0", "3", "6", "8", "5", "4", "7",
     "7", "5", "8", "0", "7">>,
   <<"9", "2", "2", "3", "3", "7", "2", "0", "3", "6", "8", "5", "4", "7",
     "7", "5", "8", "0", "8">>,
   <<"1", "0", "0", "0", "0", "0", "0", "0", "0", "0", "0", "0", "0", "0",
     "0", "0", "0", "0", "0", "0", "0">>}

Inputs ==
  Strings(MaxLen)
    \cup UNION {Chains(n) \cup Decorated(n) : n \in 1..MaxOperands}
    \cup LongNumerals

----------------------------------------------------------------------------
(* The driver                                                              *)

Init ==
  /\ argc \in {1, 2, 3}
  /\ argv1 \in IF argc = 2 THEN Inputs
               ELSE IF argc = 1 THEN {<<>>} ELSE {<<"1">>}
  /\ pc = "main"
  /\ user_input = <<>>
  /\ p = 0
  /\ toks = <<>>
  /\ token = 0
  /\ heap = <<>>
  /\ node = NULL
  /\ stdout = <<>>
  /\ stderr = <<>>
  /\ pos = -1
  /\ exit_code = -1
  /\ ip = 0
  /\ stack = <<>>
  /\ regs = [x0 |-> 0, x1 |-> 0, x2 |-> 0]
  /\ flags = <<0, 0>>
  /\ underflow = FALSE

\* error(fmt, ...): the message and exit(1)
error(msg) ==
  /\ stderr' = Append(stderr, <<msg>>)
  /\ pos' = pos
  /\ exit_code' = 1
  /\ pc' = "exited"

\* error_at(loc, fmt, ...): the input line, the caret line, exit(1)
error_at(loc, msg) ==
  /\ pos' = loc
  /\ stderr' = stderr \o <<user_input,
                           printf_star_s(loc, <<" ">>) \o <<"^", " ">> \o msg>>
  /\ exit_code' = 1
  /\ pc' = "exited"

\* What %c prints for the char * that expect passes it: one byte of the
\* pointer.
PointerBytes == {")", "?"}

ErrorText(e, c) ==
  IF e.msg = "expected_op" THEN <<"'", c, "'", "dewaarimasen">>
  ELSE <<e.msg>>

MainArgError ==
  /\ pc = "main"
  /\ argc # 2
  /\ error("invalid number of arguments")
  /\ UNCHANGED <<argc, argv1, user_input, p, toks, token, heap, node, stdout,
                 ip, stack, regs, flags, underflow>>

\* MainStart with a fault injected: the prologue is printed before
\* tokenizing.
MainStart_PrintsFirst ==
  /\ pc = "main"
  /\ argc = 2
  /\ user_input' = argv1
  /\ p' = 0
  /\ stdout' = Prologue
  /\ pc' = "tokenize"
  /\ UNCHANGED <<argc, argv1, toks, token, heap, node, stderr, pos,
                 exit_code, ip, stack, regs, flags, underflow>>

MainStart ==
  /\ pc = "main"
  /\ argc = 2
  /\ user_input' = argv1
  /\ p' = 0
  /\ pc' = "tokenize"
  /\ UNCHANGED <<argc, argv1, toks, token, heap, node, stdout, stderr, pos,
                 exit_code, ip, stack, regs, flags, underflow>>

LexNow == [p |-> p, toks |-> toks, err |-> NoError, done |-> FALSE]

\* The scan pointer and the list after the iteration of tokenize's loop.
TokStep ==
  /\ p' = LexStep(user_input, LexNow).p
  /\ toks' = LexStep(user_input, LexNow).toks
  /\ UNCHANGED <<argc, argv1, pc, user_input, token, heap, node, stdout,
                 stderr, pos, exit_code, ip, stack, regs, flags, underflow>>

TokSpace ==
  /\ pc = "tokenize"
  /\ LexBranch(user_input, p) = "space"
  /\ TokStep

TokOp2 ==
  /\ pc = "tokenize"
  /\ LexBranch(user_input, p) = "op2"
  /\ TokStep

TokOp1 ==
  /\ pc = "tokenize"
  /\ LexBranch(user_input, p) = "op1"
  /\ TokStep

TokNum ==
  /\ pc = "tokenize"
  /\ LexBranch(user_input, p) = "num"
  /\ TokStep

TokError ==
  /\ pc = "tokenize"
  /\ LexBranch(user_input, p) = "error"
  /\ LET ls == LexStep(user_input, LexNow)
     IN  error_at(ls.err.loc, <<ls.err.msg>>)
  /\ UNCHANGED <<argc, argv1, user_input, p, toks, token, heap, node, stdout,
                 ip, stack, regs, flags, underflow>>

\* The NUL ends the loop: the TK_EOF token, and main's token = tokenize().
TokEOF ==
  /\ pc = "tokenize"
  /\ LexBranch(user_input, p) = "eof"
  /\ LET ls == LexStep(user_input, LexNow)
     IN  toks' = ls.toks
  /\ token' = 1
  /\ pc' = "parse"
  /\ UNCHANGED <<argc, argv1, user_input, p, heap, node, stdout, stderr, pos,
                 exit_code, ip, stack, regs, flags, underflow>>

\* Node *node = expr(), returning in the parser state R.
ParseReturns(R) ==
  /\ ~failed(R)
  /\ token' = R.token
  /\ heap' = R.heap
  /\ node' = R.node
  /\ pc' = "prologue"
  /\ UNCHANGED <<argc, argv1, user_input, p, toks, stdout, stderr, pos, exit_code,
                 ip, stack, regs, flags, underflow>>

ParseOk ==
  /\ pc = "parse"
  /\ ParseReturns(expr(ParseStart(user_input, toks)))

\* Node *node = expr(), ending in expect's or expect_number's error_at in
\* the parser state R.
ParseExits(R) ==
  /\ failed(R)
  /\ token' = R.token
  /\ heap' = R.heap
  /\ \E c \in PointerBytes : error_at(R.err.loc, ErrorText(R.err, c))
  /\ UNCHANGED <<argc, argv1, user_input, p, toks, node, stdout, ip, stack,
                 regs, flags, underflow>>

ParseError ==
  /\ pc = "parse"
  /\ ParseExits(expr(ParseStart(user_input, toks)))

EmitPrologue ==
  /\ pc = "prologue"
  /\ stdout' = stdout \o Prologue
  /\ pc' = "gen"
  /\ UNCHANGED <<argc, argv1, user_input, p, toks, token, heap, node, stderr, pos,
                 exit_code, ip, stack, regs, flags, underflow>>

GenRoot ==
  /\ pc = "gen"
  /\ stdout' = stdout \o gen(heap, node)
  /\ pc' = "epilogue"
  /\ UNCHANGED <<argc, argv1, user_input, p, toks, token, heap, node, stderr, pos,
                 exit_code, ip, stack, regs, flags, underflow>>

\* The final pop, the ret, and return 0.
EmitEpilogue ==
  /\ pc = "epilogue"
  /\ stdout' = stdout \o Epilogue
  /\ exit_code' = 0
  /\ pc' = "exited"
  /\ UNCHANGED <<argc, argv1, user_input, p, toks, token, heap, node, stderr, pos,
                 ip, stack, regs, flags, underflow>>

\* The index in the listing of the line after the label main.
EntryPoint(listing) ==
  1 + CHOOSE k \in 1..Len(listing) : listing[k].text = "main:"

\* The listing is assembled and main is called.
Call ==
  /\ pc = "exited"
  /\ exit_code = 0
  /\ \E j \in Junk :
       LET m == Machine(j)
       IN  /\ stack' = m.stack
           /\ regs' = m.regs
           /\ flags' = m.flags
           /\ underflow' = m.underflow
  /\ ip' = EntryPoint(stdout)
  /\ pc' = "exec"
  /\ UNCHANGED <<argc, argv1, user_input, p, toks, token, heap, node, stdout,
                 stderr, pos, exit_code>>

MachineNow ==
  [stack |-> stack, regs |-> regs, flags |-> flags, underflow |-> underflow]

\* One instruction other than ret.
Exec ==
  /\ pc = "exec"
  /\ ip <= Len(stdout)
  /\ stdout[ip].text # "  ret"
  /\ \E j \in Junk :
       LET m == ExecInstr(MachineNow, stdout[ip], j)
       IN  /\ stack' = m.stack
           /\ regs' = m.regs
           /\ flags' = m.flags
           /\ underflow' = m.underflow
  /\ ip' = ip + 1
  /\ UNCHANGED <<argc, argv1, pc, user_input, p, toks, token, heap, node,
                 stdout, stderr, pos, exit_code>>

Ret ==
  /\ pc = "exec"
  /\ ip <= Len(stdout)
  /\ stdout[ip].text = "  ret"
  /\ pc' = "returned"
  /\ UNCHANGED <<argc, argv1, user_input, p, toks, token, heap, node, stdout,
                 stderr, pos, exit_code, ip, stack, regs, flags, underflow>>

Next ==
  \/ MainArgError
  \/ MainStart
  \/ TokSpace
  \/ TokOp2
  \/ TokOp1
  \/ TokNum
  \/ TokError
  \/ TokEOF
  \/ ParseOk
  \/ ParseError
  \/ EmitPrologue
  \/ GenRoot
  \/ EmitEpilogue
  \/ Call
  \/ Exec
  \/ Ret

Spec == Init /\ [][Next]_vars

----------------------------------------------------------------------------
(* Properties                                                              *)

\* tokenize has returned: main has assigned token.
LexDone == token # 0

\* expr() has returned to main.
Parsed == node # NULL

TokLexeme(i) == Lexeme(user_input, toks[i])

IsOp(i, ops) == toks[i].kind = "TK_RESERVED" /\ TokLexeme(i) \in ops

BinaryOps ==
  {<<"+">>, <<"-">>, <<"*">>, <<"/">>, <<"<">>, <<"<", "=">>, <<">">>,
   <<">", "=">>, <<"=", "=">>, <<"!", "=">>}

(* The token at which a left-to-right reading of the token list stops, and *)
(* why, by a scanner that keeps only what it expects next and the number   *)
(* of open parentheses: mode "E" expects an operand and allows a sign, "P" *)
(* expects a primary after a sign, "O" expects an operator.                *)
RECURSIVE Scan(_, _, _)
Scan(i, mode, depth) ==
  IF mode \in {"E", "P"}
  THEN IF toks[i].kind = "TK_NUM" THEN Scan(i + 1, "O", depth)
       ELSE IF IsOp(i, {<<"(">>}) THEN Scan(i + 1, "E", depth + 1)
       ELSE IF mode = "E" /\ IsOp(i, {<<"+">>, <<"-">>})
       THEN Scan(i + 1, "P", depth)
       ELSE [idx |-> i, err |-> "expected_number"]
  ELSE IF IsOp(i, BinaryOps) THEN Scan(i + 1, "E", depth)
       ELSE IF depth > 0 /\ IsOp(i, {<<")">>}) THEN Scan(i + 1, "O", depth - 1)
       ELSE IF depth > 0 THEN [idx |-> i, err |-> "expected_op"]
       ELSE [idx |-> i, err |-> "none"]

\* The lexemes of the first n tokens, concatenated.
RECURSIVE Lexemes(_)
Lexemes(n) == IF n = 0 THEN <<>> ELSE Lexemes(n - 1) \o TokLexeme(n)

NotSpace(c) == ~isspace(c)

\* C9: when tokenize succeeds the list holds exactly one EndOfInput token,
\* last and at the input's length; the tokens before it have non-empty,
\* strictly increasing, non-overlapping spans whose lexemes, concatenated,
\* are the input without its whitespace; and wherever a token starts at
\* ==, !=, <= or >= it is one two-character operator token (this last part
\* holds of the list while it is being built, too).
C9_TokenSequence ==
  /\ \A i \in 1..Len(toks) :
       (\E q \in TwoCharOps : startswith(user_input, toks[i].str, q))
         => toks[i].kind = "TK_RESERVED" /\ toks[i].len = 2
  /\ LexDone =>
       /\ Len(toks) >= 1
       /\ \A i \in 1..Len(toks) : toks[i].kind = "TK_EOF" <=> i = Len(toks)
       /\ toks[Len(toks)].str = Len(user_input)
       /\ \A i \in 1..(Len(toks) - 1) :
            /\ toks[i].len >= 1
            /\ toks[i].str + toks[i].len <= toks[i + 1].str
       /\ Lexemes(Len(toks)) = SelectSeq(user_input, NotSpace)

C9_Witness ==
  /\ LexDone
  /\ \E i \in 1..Len(toks) : IsOp(i, {<<"<", "=">>})
  /\ \E k \in 1..Len(user_input) : isspace(user_input[k])

\* The value of a digit run read as a decimal numeral, computed on the
\* numeral itself: big when it exceeds 2^31 - 1 (v is then not used).
IntMaxDigits == <<"2", "1", "4", "7", "4", "8", "3", "6", "4", "7">>

RECURSIVE StripZeros(_)
StripZeros(d) ==
  IF Len(d) > 1 /\ Head(d) = "0" THEN StripZeros(Tail(d)) ELSE d

RECURSIVE NumeralGreater(_, _)
NumeralGreater(a, b) ==
  IF a = <<>> THEN FALSE
  ELSE IF Head(a) # Head(b) THEN DigitValue(Head(a)) > DigitValue(Head(b))
  ELSE NumeralGreater(Tail(a), Tail(b))

RECURSIVE Horner(_)
Horner(d) ==
  IF d = <<>> THEN 0
  ELSE 10 * Horner(SubSeq(d, 1, Len(d) - 1)) + DigitValue(d[Len(d)])

RefDec(digits) ==
  LET d == StripZeros(digits)
      big == \/ Len(d) > Len(IntMaxDigits)
             \/ Len(d) = Len(IntMaxDigits) /\ NumeralGreater(d, IntMaxDigits)
  IN  [big |-> big, v |-> IF big THEN 0 ELSE Horner(d)]

IsMaximalRun(t) ==
  /\ t.len >= 1
  /\ \A k \in t.str..(t.str + t.len - 1) : isdigit(CharAt(user_input, k))
  /\ ~isdigit(CharAt(user_input, t.str - 1))
  /\ ~isdigit(CharAt(user_input, t.str + t.len))

NumTokens == {i \in 1..Len(toks) : toks[i].kind = "TK_NUM"}

\* C8 as claimed: every Number token's value is non-negative and equals the
\* base-10 value of its maximal run of digits, whatever the run's value.
C8_Original ==
  \A i \in NumTokens :
    /\ IsMaximalRun(toks[i])
    /\ ~RefDec(TokLexeme(i)).big
    /\ toks[i].val >= 0
    /\ toks[i].val = RefDec(TokLexeme(i)).v

\* C8 amended: every Number token spans a maximal run of digits, and when
\* the run's value is at most 2^31 - 1 the token's value is that value (and
\* so non-negative).
C8_ValueInRange ==
  \A i \in NumTokens :
    /\ IsMaximalRun(toks[i])
    /\ ~RefDec(TokLexeme(i)).big
         => toks[i].val >= 0 /\ toks[i].val = RefDec(TokLexeme(i)).v

C8_Witness ==
  \E i \in NumTokens :
    /\ TokLexeme(i) = IntMaxDigits
    /\ toks[i].val = Horner(IntMaxDigits)

\* C2: a run that ends with a diagnostic ends with exit code 1 and has
\* written nothing to standard output; standard output is written only
\* after tokenize and expr() have both returned, and a run that wrote
\* to it ends with exit code 0 and no diagnostic.
C2_NoPartialAssembly ==
  /\ exit_code \in {-1, 0, 1}
  /\ (pc = "exited") <=> (exit_code # -1 /\ ip = 0)
  /\ stderr # <<>> <=> exit_code = 1
  /\ exit_code = 1 => stdout = <<>>
  /\ stdout # <<>> => LexDone /\ Parsed
  /\ exit_code = 0 =>
       stdout = Prologue \o gen(heap, node) \o Epilogue

C2_Witness ==
  /\ pc = "exited"
  /\ exit_code = 1
  /\ LexDone
  /\ ~Parsed
  /\ heap # <<>>

\* C4 as claimed: the caret of the diagnostic's second line is preceded by
\* exactly pos spaces, pos being the offending offset.
C4_CaretUnderOffset ==
  pos >= 0 =>
    /\ Len(stderr) = 2
    /\ stderr[1] = user_input
    /\ SubSeq(stderr[2], 1, pos + 1) = Spaces(pos) \o <<"^">>

\* Where expr() stops when it returns to main.
CursorAtEOF == toks[token].kind = "TK_EOF"

\* C3 as claimed: when expr() returns without a syntax error the cursor is
\* at the EndOfInput token.
C3_Original == Parsed => CursorAtEOF

\* C3 amended: when expr() returns without a syntax error the cursor is at
\* the first token that cannot continue the expression, which is
\* EndOfInput, a Number, "(" or ")" and never a binary operator; tokens
\* from there on are ignored, and the run ends with exit code 0 and the
\* assembly of the expression before them.
C3_StopsAtFirstNonContinuation ==
  Parsed =>
    /\ Scan(1, "E", 0) = [idx |-> token, err |-> "none"]
    /\ ~IsOp(token, BinaryOps)
    /\ pc = "exited" => exit_code = 0 /\ stdout # <<>>

C3_Witness ==
  /\ Parsed
  /\ ~CursorAtEOF
  /\ toks[token].kind = "TK_NUM"
  /\ pc = "exited"
  /\ exit_code = 0

\* The run ended in the parser's error_at.
SyntaxError == pc = "exited" /\ LexDone /\ ~Parsed

\* C5: a syntax error is reported at the offset of the token under the
\* cursor, which is the first token that cannot continue the expression:
\* a token that is neither a Number nor "(" (nor a sign where one may
\* stand) where a number is expected, or a token that is not ")" where
\* only ")" or an operator can follow.  For "1+" the offset is 2; with no
\* token but EndOfInput it is EndOfInput's and a number is expected.
C5_ErrorAtFailingToken ==
  SyntaxError =>
    /\ exit_code = 1
    /\ pos = toks[token].str
    /\ Scan(1, "E", 0).idx = token
    /\ Scan(1, "E", 0).err # "none"
    /\ Scan(1, "E", 0).err = "expected_number"
         <=> stderr[2][Len(stderr[2])] = "expected_number"
    /\ Scan(1, "E", 0).err = "expected_op" => ~IsOp(token, {<<")">>})
    /\ user_input = <<"1", "+">> => pos = 2
    /\ Len(toks) = 1 =>
         /\ pos = Len(user_input)
         /\ stderr[2][Len(stderr[2])] = "expected_number"

C5_Witness ==
  /\ SyntaxError
  /\ Scan(1, "E", 0).err = "expected_op"
  /\ toks[token].kind # "TK_EOF"
  /\ pos = toks[token].str

NodeKinds ==
  {"ND_ADD", "ND_SUB", "ND_MUL", "ND_DIV", "ND_EQ", "ND_NE", "ND_LT",
   "ND_LE", "ND_NUM"}

\* The (node, side) pairs that point to node n.
Parents(n) ==
  {<<m, "lhs">> : m \in {k \in 1..Len(heap) : heap[k].lhs = n}}
    \cup {<<m, "rhs">> : m \in {k \in 1..Len(heap) : heap[k].rhs = n}}

\* The Number tokens and the unary minus signs before the cursor: a "-"
\* that is the first token or follows an operator other than ")".
UnaryMinus(i) ==
  /\ IsOp(i, {<<"-">>})
  /\ i = 1 \/ (toks[i - 1].kind = "TK_RESERVED" /\ ~IsOp(i - 1, {<<")">>}))

Leaves ==
  {i \in 1..(token - 1) : toks[i].kind = "TK_NUM" \/ UnaryMinus(i)}

\* The tree below node n as a value: <<kind, val, left tree, right tree>>,
\* and <<>> for NULL.
RECURSIVE Tree(_, _)
Tree(h, n) ==
  IF n = NULL THEN <<>>
  ELSE <<h[n].kind, h[n].val, Tree(h, h[n].lhs), Tree(h, h[n].rhs)>>

Num(v) == <<"ND_NUM", v, <<>>, <<>>>>

\* C10: the nodes of a successful parse form one tree rooted at node: a
\* Num node has no children; a binary node has two, both allocated before
\* it; no node has two parents, the root has none and every other node has
\* one.  "-x" adds Sub(Num(0), x) and "+x" adds nothing: the tree has one
\* leaf per Number token and per unary minus, and so twice as many nodes
\* less one.
C10_WellFormedTree ==
  Parsed =>
    /\ node \in 1..Len(heap)
    /\ \A n \in 1..Len(heap) :
         /\ heap[n].kind \in NodeKinds
         /\ heap[n].kind = "ND_NUM" =>
              heap[n].lhs = NULL /\ heap[n].rhs = NULL
         /\ heap[n].kind # "ND_NUM" =>
              /\ heap[n].lhs \in 1..(n - 1)
              /\ heap[n].rhs \in 1..(n - 1)
         /\ Cardinality(Parents(n)) = IF n = node THEN 0 ELSE 1
    /\ Len(heap) = 2 * Cardinality(Leaves) - 1
    /\ (token = 3 /\ IsOp(1, {<<"-">>})) =>
         Tree(heap, node) = <<"ND_SUB", 0, Num(0), Num(toks[2].val)>>
    /\ (token = 3 /\ IsOp(1, {<<"+">>})) =>
         Tree(heap, node) = Num(toks[2].val)

C10_Witness ==
  /\ Parsed
  /\ Len(heap) >= 7
  /\ \E i \in Leaves : UnaryMinus(i)
  /\ \E n \in 1..Len(heap) :
       /\ heap[n].kind = "ND_SUB"
       /\ heap[heap[n].lhs] = Node("ND_NUM", NULL, NULL, 0)
       /\ heap[heap[n].rhs].kind # "ND_NUM"

\* The parse of the string s by the parsing function add, when s
\* tokenizes, add returns without an error and stops at EndOfInput.
AddParse(s) == add(ParseStart(s, tokenize(s).toks))

IsAddLevel(s) ==
  /\ ~failed(tokenize(s))
  /\ ~failed(AddParse(s))
  /\ AddParse(s).toks[AddParse(s).token].kind = "TK_EOF"

AddTree(s) == Tree(AddParse(s).heap, AddParse(s).node)

ExprParse(s) == expr(ParseStart(s, tokenize(s).toks))

ExprTree(s) == Tree(ExprParse(s).heap, ExprParse(s).node)

\* The input read as a ">" b or a ">=" b with the ">" at index i.
LeftOf(i) == SubSeq(user_input, 1, i - 1)

WithEq(i) == CharAt(user_input, i) = "="

RightOf(i) ==
  SubSeq(user_input, IF WithEq(i) THEN i + 2 ELSE i + 1, Len(user_input))

Mirrored(i) ==
  RightOf(i) \o (IF WithEq(i) THEN <<"<", "=">> ELSE <<"<">>) \o LeftOf(i)

GreaterSplits ==
  {i \in 1..Len(user_input) :
     /\ user_input[i] = ">"
     /\ IsAddLevel(LeftOf(i))
     /\ IsAddLevel(RightOf(i))}

\* C7: for add-level a and b the input "a > b" parses, and to the tree of
\* "b < a", which is Lt(b, a); "a >= b" to the tree of "b <= a", which is
\* Le(b, a); and no node has a kind other than the nine kinds.
C7_GreaterIsMirroredLess ==
  /\ \A n \in 1..Len(heap) : heap[n].kind \in NodeKinds
  /\ pc \in {"prologue", "exited"} =>
       \A i \in GreaterSplits :
         /\ Parsed
         /\ Tree(heap, node) = ExprTree(Mirrored(i))
         /\ Tree(heap, node) =
              <<IF WithEq(i) THEN "ND_LE" ELSE "ND_LT", 0,
                AddTree(RightOf(i)), AddTree(LeftOf(i))>>

C7_Witness ==
  /\ pc = "prologue"
  /\ \E i \in GreaterSplits :
       /\ WithEq(i)
       /\ AddTree(LeftOf(i)) # AddTree(RightOf(i))
       /\ Len(AddParse(RightOf(i)).heap) >= 3

\* The machine after the instructions of gen(n), started with nothing
\* pushed.
AfterGen(n, j) == Run(Machine(j), gen(heap, n), j)

\* The instruction after which the final pop and the ret remain.
FinalPop == Len(stdout) - 1

\* C6: run from the depth at which they start, the instructions of
\* gen(n) never pop below that depth and end exactly one slot above it,
\* for every node n; before a binary node's two pops its left operand's
\* value lies under its right operand's; the emitted program never pops
\* below the depth on entry to main, holds exactly one value when the final
\* pop executes, and returns with the depth of entry.
C6_StackDiscipline ==
  /\ pc \in {"epilogue", "returned"} =>
       \A n \in 1..Len(heap) : \A j \in Junk :
         /\ ~AfterGen(n, j).underflow
         /\ Len(AfterGen(n, j).stack) = 1
         /\ heap[n].kind # "ND_NUM" =>
              Run(Machine(j), gen(heap, heap[n].lhs) \o gen(heap, heap[n].rhs),
                  j).stack
                = AfterGen(heap[n].lhs, j).stack
                    \o AfterGen(heap[n].rhs, j).stack
  /\ ~underflow
  /\ (pc = "exec" /\ ip = FinalPop) => Len(stack) = 1
  /\ pc = "returned" => stack = <<>>

C6_Witness ==
  /\ pc = "returned"
  /\ Len(heap) >= 5
  /\ stack = <<>>
  /\ \E n \in 1..Len(heap) :
       /\ heap[n].kind # "ND_NUM"
       /\ heap[heap[n].rhs].kind # "ND_NUM"

(* The reference evaluator, on the tokens lo..hi of a well-formed           *)
(* expression: split at the last operator, outside parentheses, of the     *)
(* loosest-binding level present; without one, strip a sign or a pair of   *)
(* parentheses, or read the numeral.  A value is [dz, big, v]: dz when a   *)
(* division by zero occurred, big when a literal exceeds 2^31 - 1, and     *)
(* otherwise the integer v.                                                *)
Levels ==
  <<{<<"=", "=">>, <<"!", "=">>},
    {<<"<">>, <<"<", "=">>, <<">">>, <<">", "=">>},
    {<<"+">>, <<"-">>},
    {<<"*">>, <<"/">>}>>

ParenDepth(lo, i) ==
  Cardinality({k \in lo..(i - 1) : IsOp(k, {<<"(">>})})
    - Cardinality({k \in lo..(i - 1) : IsOp(k, {<<")">>})})

\* The binary operators of level l among lo..hi, outside parentheses.
Splits(lo, hi, l) ==
  {i \in (lo + 1)..hi :
     /\ IsOp(i, Levels[l])
     /\ toks[i - 1].kind = "TK_NUM" \/ IsOp(i - 1, {<<")">>})
     /\ ParenDepth(lo, i) = 0}

SetMax(S) == CHOOSE x \in S : \A y \in S : y <= x

\* Division rounding toward zero, from the floor.
RefDiv(a, b) ==
  LET q == a \div b
  IN  IF q * b # a /\ (a < 0) # (b < 0) THEN q + 1 ELSE q

RefValue(v) == [dz |-> FALSE, big |-> FALSE, v |-> v]

RefApply(op, a, b) ==
  IF a.dz \/ b.dz \/ (op = <<"/">> /\ ~b.big /\ b.v = 0)
  THEN [dz |-> TRUE, big |-> FALSE, v |-> 0]
  ELSE IF a.big \/ b.big THEN [dz |-> FALSE, big |-> TRUE, v |-> 0]
  ELSE RefValue(CASE op = <<"+">> -> a.v + b.v
                  [] op = <<"-">> -> a.v - b.v
                  [] op = <<"*">> -> a.v * b.v
                  [] op = <<"/">> -> RefDiv(a.v, b.v)
                  [] op = <<"=", "=">> -> IF a.v = b.v THEN 1 ELSE 0
                  [] op = <<"!", "=">> -> IF a.v # b.v THEN 1 ELSE 0
                  [] op = <<"<">> -> IF a.v < b.v THEN 1 ELSE 0
                  [] op = <<"<", "=">> -> IF a.v <= b.v THEN 1 ELSE 0
                  [] op = <<">">> -> IF a.v > b.v THEN 1 ELSE 0
                  [] op = <<">", "=">> -> IF a.v >= b.v THEN 1 ELSE 0)

RECURSIVE RefEval(_, _)
RefSplit(lo, hi, i) ==
  RefApply(TokLexeme(i), RefEval(lo, i - 1), RefEval(i + 1, hi))

RefEval(lo, hi) ==
  IF \E l \in 1..4 : Splits(lo, hi, l) # {}
  THEN LET l == CHOOSE k \in 1..4 :
                  /\ Splits(lo, hi, k) # {}
                  /\ \A m \in 1..(k - 1) : Splits(lo, hi, m) = {}
       IN  RefSplit(lo, hi, SetMax(Splits(lo, hi, l)))
  ELSE IF IsOp(lo, {<<"+">>}) THEN RefEval(lo + 1, hi)
  ELSE IF IsOp(lo, {<<"-">>})
  THEN RefApply(<<"-">>, RefValue(0), RefEval(lo + 1, hi))
  ELSE IF IsOp(lo, {<<"(">>}) THEN RefEval(lo + 1, hi - 1)
  ELSE [dz |-> FALSE, big |-> RefDec(TokLexeme(lo)).big,
        v |-> RefDec(TokLexeme(lo)).v]

Reference == RefEval(1, Len(toks) - 1)

\* The emitted program of a whole expression has returned.
Returned == pc = "returned" /\ CursorAtEOF

\* C1 as claimed: for every expression that compiles and divides by no
\* zero, the emitted program returns the reference evaluator's integer.
C1_Original ==
  (Returned /\ ~Reference.dz) =>
    ~Reference.big /\ regs.x0 = Reference.v

\* C1 amended: the same, for the expressions whose literals are all at most
\* 2^31 - 1.
C1_ReturnsReferenceValue ==
  (Returned /\ ~Reference.dz /\ ~Reference.big) => regs.x0 = Reference.v

C1_Witness ==
  /\ Returned
  /\ user_input = <<"1", "0", "-", "3", "*", "2">>
  /\ Reference = RefValue(4)
  /\ regs.x0 = 4

====
